---- MODULE Spec2Model ----
(***************************************************************************)
(* Model of the gklr mini-batch SGD optimizer (src/gklr/optimizer.py):     *)
(* Optimizer.minimize, Optimizer._minimize_mini_batch_sgd,                 *)
(* Optimizer._random_mini_batch and the MemoizeJac wrapper.                *)
(*                                                                         *)
(* Numbers are integers: the parameter vector x, the gradient, the         *)
(* learning rate and gtol are integer valued, so x - learning_rate * g is  *)
(* exact.  The objective is the L1 loss of x against per-sample data,      *)
(* whose gradient is a sum of signs; the optimizer treats it as opaque.    *)
(***************************************************************************)
EXTENDS Integers, Sequences, FiniteSets, TLC

(* ------------------------------ bounds --------------------------------- *)
MaxSamples == 4
MaxIter == 3
MemoSamples == 3
MaxAlt == 4

(* --------------------------- small helpers ----------------------------- *)
Abs(v) == IF v < 0 THEN -v ELSE v
Sgn(v) == IF v > 0 THEN 1 ELSE IF v < 0 THEN -1 ELSE 0
Min(a, b) == IF a < b THEN a ELSE b

RECURSIVE SumSeq(_)
SumSeq(s) == IF s = <<>> THEN 0 ELSE Head(s) + SumSeq(Tail(s))

RECURSIVE Concat(_)
Concat(ss) == IF ss = <<>> THEN <<>> ELSE Head(ss) \o Concat(Tail(ss))

Range(s) == {s[k] : k \in DOMAIN s}

(* length of the parameter vector x0 (n, = x0.shape) *)
Dim == 2
Zeros == [j \in 1..Dim |-> 0]
VecAdd(a, b) == [j \in 1..Dim |-> a[j] + b[j]]
VecScale(c, a) == [j \in 1..Dim |-> c * a[j]]

(* ------------------- optional values and numpy arrays ------------------ *)
(* Python None, a numpy integer array, and the 0-d object array that       *)
(* np.asarray(None) builds.                                                *)
None == [kind |-> "none", v |-> <<>>]
Arr(s) == [kind |-> "arr", v |-> s]
ObjNone == [kind |-> "obj", v |-> <<>>]

(* np.all(a == b) for a, b each None, an array or array(None, dtype=object).
   None == None is True; an array compared with None (or with the object
   array holding None) is elementwise False, and np.all of an empty array is
   True; arrays of equal length compare elementwise; a length-1 array
   broadcasts; other length pairs cannot be broadcast ("mismatch"). *)
NpShapeMismatch(a, b) ==
    /\ a.kind = "arr" /\ b.kind = "arr"
    /\ Len(a.v) # Len(b.v)
    /\ Len(a.v) # 1 /\ Len(b.v) # 1

NpAllEq(a, b) ==
    IF a.kind = "arr" /\ b.kind = "arr"
    THEN IF Len(a.v) = Len(b.v)
         THEN \A k \in 1..Len(a.v) : a.v[k] = b.v[k]
         ELSE IF Len(a.v) = 1 THEN \A k \in 1..Len(b.v) : b.v[k] = a.v[1]
         ELSE IF Len(b.v) = 1 THEN \A k \in 1..Len(a.v) : a.v[k] = b.v[1]
         ELSE FALSE
    ELSE IF a.kind = "arr" THEN Len(a.v) = 0
    ELSE IF b.kind = "arr" THEN Len(b.v) = 0
    ELSE TRUE

(* ----------------------- the objective (fun, jac) ---------------------- *)
(* Per-sample data of the L1 objective. *)
Data(s) == <<s, s % 2>>

(* the sample indices a call works on: the mini-batch, or all samples when
   the minibatch argument is None *)
BatchIdx(mb, n) == IF mb.kind = "arr" THEN mb.v ELSE [k \in 1..n |-> k - 1]

(* fun(x, minibatch): sum over the batch of |x - data| *)
FunValue(x, mb, n) ==
    LET idx == BatchIdx(mb, n)
    IN SumSeq([k \in 1..Len(idx) |->
                 Abs(x[1] - Data(idx[k])[1]) + Abs(x[2] - Data(idx[k])[2])])

(* jac(x, minibatch): its (sub)gradient *)
FunGrad(x, mb, n) ==
    LET idx == BatchIdx(mb, n)
    IN [j \in 1..Dim |->
          SumSeq([k \in 1..Len(idx) |-> Sgn(x[j] - Data(idx[k])[j])])]

(* ------------------------------ MemoizeJac ------------------------------ *)
(* MemoizeJac.__init__ *)
MemoInit == [x |-> None, minibatch |-> None, value |-> None, jac |-> None]

(* np.asarray(minibatch).copy(): None becomes the 0-d object array *)
NpAsArray(mb) == IF mb = None THEN ObjNone ELSE mb

(* self.fun(x, minibatch): the wrapped function returns (value, gradient) *)
WrappedFun(x, mb, n) == [value |-> Arr(<<FunValue(x, mb, n)>>), jac |-> Arr(FunGrad(x, mb, n))]

(* the first test of _compute_if_needed *)
NeedsPoint(m, x) == ~NpAllEq(Arr(x), m.x) \/ m.value = None \/ m.jac = None

(* variant: the cached mini-batch is never taken to match *)
NeedsBatchAlways(m, mb) == TRUE

(* the second test of _compute_if_needed *)
NeedsBatch(m, mb) == ~NpAllEq(mb, m.minibatch)

(* MemoizeJac._compute_if_needed(x, minibatch).  callable_fun: whether the
   wrapped object can be called (calling it otherwise raises TypeError);
   np_raises: whether this numpy raises ValueError on == between arrays that
   cannot be broadcast (numpy >= 1.25) instead of yielding False.
   Result: the wrapper's fields afterwards, the number of times the wrapped
   function was called, and the exception raised ("" for none). *)
ComputeIfNeeded(m, x, mb, n, callable_fun, np_raises) ==
    LET need1 == NeedsPoint(m, x)
        m1a   == [m EXCEPT !.x = Arr(x), !.minibatch = mb]
        fg    == WrappedFun(x, mb, n)
        m1    == IF ~need1 THEN m
                 ELSE IF callable_fun THEN [m1a EXCEPT !.jac = fg.jac, !.value = fg.value]
                 ELSE m1a
        err1  == need1 /\ ~callable_fun
        err2  == ~err1 /\ np_raises /\ NpShapeMismatch(mb, m1.minibatch)
        need2 == ~err1 /\ ~err2 /\ NeedsBatch(m1, mb)
        m2a   == [m1 EXCEPT !.minibatch = NpAsArray(mb)]
        m2    == IF ~need2 THEN m1
                 ELSE IF callable_fun THEN [m2a EXCEPT !.jac = fg.jac, !.value = fg.value]
                 ELSE m2a
        err3  == need2 /\ ~callable_fun
    IN [memo    |-> m2,
        invoked |-> (IF need1 THEN 1 ELSE 0) + (IF need2 THEN 1 ELSE 0),
        raised  |-> IF err1 \/ err3 THEN "TypeError"
                    ELSE IF err2 THEN "ValueError" ELSE ""]

(* ----------------------- Optimizer: pure helpers ------------------------ *)
MsgOk == "Optimization terminated successfully."
MsgGtol == "Optimization terminated successfully. Gradient tolerance reached."
MsgLimit == "STOP: TOTAL NO. of ITERATIONS REACHED LIMIT"

(* mini_batch_size: not given (None) or an integer *)
NoSize == [given |-> FALSE, v |-> 0]
Size(k) == [given |-> TRUE, v |-> k]

(* variant: the default is a single-sample batch *)
DefaultBatchSizeOne(mbs, n_samples) == IF mbs.given THEN mbs.v ELSE 1

(* "if mini_batch_size is None: mini_batch_size = n_samples" *)
DefaultBatchSize(mbs, n_samples) == IF mbs.given THEN mbs.v ELSE n_samples

(* variant: the check of mini_batch_size against n_samples is missing *)
ValidateNoOversize(fun_callable, learning_rate, mini_batch_size, n_samples, gtol, maxiter, jac_none) ==
    IF ~fun_callable THEN "The objective function must be callable."
    ELSE IF learning_rate <= 0 THEN "The learning rate must be greater than zero."
    ELSE IF mini_batch_size <= 0 THEN "The mini-batch size must be greater than zero."
    ELSE IF n_samples <= 0 THEN "The number of samples in the dataset must be greater than zero"
    ELSE IF gtol <= 0 THEN "The tolerance must be greater than zero."
    ELSE IF maxiter <= 0 THEN "The maximum number of iterations (epochs) must be greater than zero."
    ELSE IF jac_none THEN "The gradient of the objective function must be provided."
    ELSE ""

(* the "Checking errors" block of _minimize_mini_batch_sgd, in its order;
   the message of the ValueError raised, "" when every check passes *)
Validate(fun_callable, learning_rate, mini_batch_size, n_samples, gtol, maxiter, jac_none) ==
    IF ~fun_callable THEN "The objective function must be callable."
    ELSE IF learning_rate <= 0 THEN "The learning rate must be greater than zero."
    ELSE IF mini_batch_size <= 0 THEN "The mini-batch size must be greater than zero."
    ELSE IF n_samples <= 0 THEN "The number of samples in the dataset must be greater than zero"
    ELSE IF mini_batch_size > n_samples
         THEN "The mini-batch size must be less than or equal to the number of samples in the dataset."
    ELSE IF gtol <= 0 THEN "The tolerance must be greater than zero."
    ELSE IF maxiter <= 0 THEN "The maximum number of iterations (epochs) must be greater than zero."
    ELSE IF jac_none THEN "The gradient of the objective function must be provided."
    ELSE ""

(* the jac dispatch of minimize: what jac is bound to afterwards *)
JacAfterDispatch(jac) ==
    IF jac = "callable" THEN "callable"
    ELSE IF jac = "True" THEN "derivative"
    ELSE "None"

(* callable(fun) after the dispatch: a MemoizeJac instance defines __call__ *)
FunCallableAfterDispatch(fun_ok, jac) == IF jac = "True" THEN TRUE ELSE fun_ok

(* variant: the seed is not incremented *)
NextSeedSame(seed) == seed

(* "seed += 1" at the top of every epoch *)
NextSeed(seed) == seed + 1

(* variant: only the full chunks are kept, the shorter tail is dropped *)
RandomMiniBatchDropTail(indices, n_samples, mini_batch_size) ==
    [k \in 1..(n_samples \div mini_batch_size) |->
        SubSeq(indices, (k - 1) * mini_batch_size + 1, k * mini_batch_size)]

(* _random_mini_batch after the permutation is drawn: indices[i:i + size]
   for i in range(0, n_samples, mini_batch_size) *)
RandomMiniBatch(indices, n_samples, mini_batch_size) ==
    [k \in 1..((n_samples + mini_batch_size - 1) \div mini_batch_size) |->
        SubSeq(indices, (k - 1) * mini_batch_size + 1, Min(k * mini_batch_size, n_samples))]

(* numpy's global generator, abstracted: its state is a number, a draw
   steps it by a linear congruence, and the value drawn is the state's high
   bits.  Every output is a function of the state alone, as in numpy. *)
NpDraw(rngstate) == (rngstate * 5 + 3) % 64

(* variant: the generator is not reseeded *)
NpRandomSeedKeep(rngstate, seed) == rngstate

(* np.random.seed(seed): the state of the global generator afterwards *)
NpRandomSeed(rngstate, seed) == seed % 64

(* np.random.permutation(n): a Fisher-Yates shuffle of arange(n), for pos =
   n-1 down to 1 swapping position pos with a drawn position in [0, pos];
   yields the shuffled indices and the generator state afterwards *)
RECURSIVE Shuffle(_, _, _)
Shuffle(arr, pos, rngstate) ==
    IF pos < 1 THEN [indices |-> arr, rng |-> rngstate]
    ELSE LET r == NpDraw(rngstate)
             j == (r \div 8) % (pos + 1)
             swapped == [arr EXCEPT ![pos + 1] = arr[j + 1], ![j + 1] = arr[pos + 1]]
         IN Shuffle(swapped, pos - 1, r)

NpRandomPermutation(rngstate, n) == Shuffle([k \in 1..n |-> k - 1], n - 1, rngstate)

(* variant: every epoch reports once print_every is positive *)
ReportingAnyEpoch(print_every, i) == print_every > 0

(* "print_every > 0 and i % print_every == 0" *)
Reporting(print_every, i) == print_every > 0 /\ i % print_every = 0

(* variant: the step has the sign of the gradient *)
StepOfAscent(learning_rate, g) == VecScale(learning_rate, g)

(* "diff = - learning_rate * g" *)
StepOf(learning_rate, g) == VecScale(-learning_rate, g)

(* variant: the step has to be strictly inside the tolerance *)
ConvergedStrict(diff, gtol) == \A j \in 1..Dim : Abs(diff[j]) < gtol

(* "np.all(np.abs(diff) <= gtol)" *)
Converged(diff, gtol) == \A j \in 1..Dim : Abs(diff[j]) <= gtol

(* The caller's start vector is an array object: `x0` is what it holds and
   `xref` is the object the loop's name x is bound to ("none" before the
   loop, "x0" the caller's array, "new" an array the loop created); `xret`
   is the object returned as the result's x. *)
NoHeap(x0) == [x0 |-> x0, xref |-> "none", xret |-> "none"]

(* variant: "x += diff", which adds into the array x is bound to *)
AddStepInPlace(h, px, step) ==
    [heap |-> IF h.xref = "x0" THEN [h EXCEPT !.x0 = VecAdd(px, step)] ELSE h,
     x |-> VecAdd(px, step)]

(* "x = x + diff": the sum is a new array and x is bound to it; the array x
   was bound to before is left as it was *)
AddStep(h, px, step) ==
    [heap |-> [h EXCEPT !.xref = "new"], x |-> VecAdd(px, step)]

(* variant: the limit test is strict *)
HitLimitStrict(i, num_epochs) == i + 1 > num_epochs

(* "i += 1; if i >= num_epochs: ... success = False" after the loop *)
HitLimit(i, num_epochs) == i + 1 >= num_epochs

(* ----------------------- KernelModel: pure helpers ---------------------- *)
(* identifiers of alternatives *)
AltIds == 1..MaxAlt

(* the value of model_params["nests"]: `given` whether the key is present,
   `list` whether the value is a list, v its items; an item has `list`
   whether it is a list, `ints` whether all its members are of type int, and
   v its members *)
NoModelNests == [given |-> FALSE, list |-> FALSE, v |-> <<>>]
NestsParam(v) == [given |-> TRUE, list |-> TRUE, v |-> v]
Nest(v) == [list |-> TRUE, ints |-> TRUE, v |-> v]

(* the nests checks of KernelModel.__init__: TRUE when none of the warning
   branches is taken, so that "self.nests = nests; self.nested = True" runs *)
NestsAccepted(p) ==
    /\ p.given /\ p.list
    /\ Len(p.v) # 0 /\ Len(p.v) # 1
    /\ \A k \in DOMAIN p.v : p.v[k].list /\ Len(p.v[k].v) # 0 /\ p.v[k].ints

(* the warning KernelModel.__init__ logs about the nests, "" for none *)
NestsWarning(p) ==
    IF ~p.given \/ NestsAccepted(p) THEN "" ELSE "The nests will be ignored."

(* None for a dataset, column or attributes reference *)
NoData == 0
(* None for a kernel matrix; a kernel matrix built from the reference data
   x (and the new data z for a test kernel) under the configuration cfg,
   whose choice column shows the alternatives alts *)
NoKernel == [x |-> NoData, z |-> NoData, cfg |-> <<>>, alts |-> {}]
NoShape == <<>>
NoFit == [fitted |-> FALSE, x |-> NoData, cfg |-> <<>>, keys |-> {}]
NewConfig == [kernel |-> "default", kernel_params |-> NoData]

(* KernelModel.__init__(model_params) *)
NewKernelModel(p) ==
    [X |-> NoData, choice_column |-> NoData, attributes |-> NoData, Z |-> NoData,
     K |-> NoKernel, K_test |-> NoKernel,
     alpha_shape |-> NoShape, n_parameters |-> 0,
     results |-> NoFit,
     nests |-> IF NestsAccepted(p) THEN [k \in DOMAIN p.v |-> p.v[k].v] ELSE <<>>,
     nested |-> NestsAccepted(p),
     model_params |-> p,
     config |-> NewConfig]

(* Counter(...)[num]: how often num occurs in the flattened nests *)
CountOf(flat, num) == Cardinality({k \in DOMAIN flat : flat[k] = num})

NestsOk == [raised |-> "", kind |-> "", items |-> {}]
NestsError(kind, items) == [raised |-> "ValueError", kind |-> kind, items |-> items]

(* variant: members outside the alternatives are not looked for *)
ValidateNestsNoExtra(nests, alternatives) ==
    LET flat == Concat(nests)
        flattened_set == Range(flat)
        duplicates == {num \in flattened_set : CountOf(flat, num) > 1}
        missing == alternatives \ flattened_set
    IN IF missing # {} THEN NestsError("Missing alternatives in nests", missing)
       ELSE IF duplicates # {} THEN NestsError("Duplicates alternatives in nests", duplicates)
       ELSE NestsOk

(* variant: the duplicates are reported before the missing alternatives *)
ValidateNestsDuplicatesFirst(nests, alternatives) ==
    LET flat == Concat(nests)
        flattened_set == Range(flat)
        duplicates == {num \in flattened_set : CountOf(flat, num) > 1}
        missing == alternatives \ flattened_set
        extra == flattened_set \ alternatives
    IN IF duplicates # {} THEN NestsError("Duplicates alternatives in nests", duplicates)
       ELSE IF missing # {} THEN NestsError("Missing alternatives in nests", missing)
       ELSE IF extra # {} THEN NestsError("Extra alternatives in nests", extra)
       ELSE NestsOk

(* KernelModel.validate_nests(nests, alternatives): what it raises, with the
   head of the message and the alternatives the message lists *)
ValidateNests(nests, alternatives) ==
    LET flat == Concat(nests)
        flattened_set == Range(flat)
        duplicates == {num \in flattened_set : CountOf(flat, num) > 1}
        missing == alternatives \ flattened_set
        extra == flattened_set \ alternatives
    IN IF missing # {} THEN NestsError("Missing alternatives in nests", missing)
       ELSE IF extra # {} THEN NestsError("Extra alternatives in nests", extra)
       ELSE IF duplicates # {} THEN NestsError("Duplicates alternatives in nests", duplicates)
       ELSE NestsOk

(* The data frames handed to the model are named by a number; a frame's
   choice column and attributes dict carry the frame's number. *)
Frames == {1, 2}

(* X[choice_column].unique(): the alternatives seen in the frame *)
UniqueChoices(d) == IF d = 1 THEN {1, 2, 3} ELSE {1, 2}

(* the hyperparams dicts: dict `id` names the kernel `kernel`; mode tells
   what the dict leads to: "bad_param" it has a key that is neither a GKLR
   nor a kernel parameter, "bad_values" config.check_values() rejects it,
   "bad_matrix" the KernelMatrix constructor raises on it *)
HyperModes == {"ok", "bad_param", "bad_values", "bad_matrix"}
Hypers == {[id |-> 1, kernel |-> "rbf", mode |-> m] : m \in HyperModes}
          \cup {[id |-> 2, kernel |-> "linear", mode |-> m] : m \in HyperModes}

MsgNeedTrain == "First you must compute the kernel for the train dataset using set_kernel_train()."
MsgNeedTest == "First you must compute the kernel for the test dataset using set_kernel_test()."
MsgNeedFit == "First you must estimate the model using fit()."
MsgNoTrainKernel == "Training kernel not found or not correctly defined. Use set_kernel_test() to compute it."
MsgDataset == "Dataset must be a value in: ['train', 'test', 'both']"

(* what an operation of the model yields: the fields afterwards, the
   exception raised ("" for none) with its message, and its output *)
Outcome(m, raised, msg, out) == [km |-> m, raised |-> raised, msg |-> msg, out |-> out]

(* KernelModel._set_kernel_params(hyperparams): the kernel is stored first,
   then the parameters one by one; an unknown one raises before
   "kernel_params" is stored *)
SetKernelParams(config, h) ==
    IF h.mode = "bad_param"
    THEN [config |-> [config EXCEPT !.kernel = h.kernel], raised |-> "ValueError"]
    ELSE [config |-> [kernel |-> h.kernel, kernel_params |-> h.id], raised |-> ""]

(* KernelModel.clear_kernel(dataset) *)
ClearKernel(m, dataset) ==
    IF dataset = "train" THEN Outcome([m EXCEPT !.K = NoKernel], "", "", <<>>)
    ELSE IF dataset = "test"
    THEN Outcome([m EXCEPT !.K_test = NoKernel, !.Z = NoData], "", "", <<>>)
    ELSE IF dataset = "both"
    THEN Outcome([m EXCEPT !.K = NoKernel, !.K_test = NoKernel,
                           !.X = NoData, !.Z = NoData], "", "", <<>>)
    ELSE Outcome(m, "ValueError", MsgDataset, <<>>)

(* KernelModel.get_kernel(dataset) *)
GetKernel(m, dataset) ==
    IF dataset = "train" THEN Outcome(m, "", "", m.K)
    ELSE IF dataset = "test" THEN Outcome(m, "", "", m.K_test)
    ELSE Outcome(m, "ValueError", MsgDataset, <<>>)

(* the shape fit gives alpha: (K.get_num_cols(), K.get_num_alternatives()) *)
AlphaShape(k) == <<k.x + 1, Cardinality(k.alts)>>

(* variant: the train kernel is stored without n_parameters and alpha_shape *)
CreateKernelMatrixKeepShape(m, X, Z, train, mode) ==
    LET k == [x |-> X, z |-> Z, cfg |-> m.config, alts |-> UniqueChoices(X)]
    IN IF mode = "bad_values" THEN Outcome(m, "ValueError", "check_values", <<>>)
       ELSE IF mode = "bad_matrix" THEN Outcome(m, "ValueError", "KernelMatrix", <<>>)
       ELSE IF train THEN Outcome([m EXCEPT !.K = k], "", "", TRUE)
       ELSE Outcome([m EXCEPT !.K_test = k], "", "", TRUE)

(* KernelModel._create_kernel_matrix(X, choice_column, attributes, config,
   Z, train): check_values, then the KernelMatrix and, for the train one,
   n_parameters and alpha_shape *)
CreateKernelMatrix(m, X, Z, train, mode) ==
    LET k == [x |-> X, z |-> Z, cfg |-> m.config, alts |-> UniqueChoices(X)]
    IN IF mode = "bad_values" THEN Outcome(m, "ValueError", "check_values", <<>>)
       ELSE IF mode = "bad_matrix" THEN Outcome(m, "ValueError", "KernelMatrix", <<>>)
       ELSE IF train
       THEN Outcome([m EXCEPT !.K = k,
                              !.n_parameters = AlphaShape(k)[1] * AlphaShape(k)[2],
                              !.alpha_shape = AlphaShape(k)], "", "", TRUE)
       ELSE Outcome([m EXCEPT !.K_test = k], "", "", TRUE)

(* variant: the nests are never checked against the data *)
NestsCheckSkipped(m, d) == NestsOk

(* "if self.nested == True: self.validate_nests(self.nests,
   X[choice_column].unique())" *)
NestsCheck(m, d) ==
    IF m.nested THEN ValidateNests(m.nests, UniqueChoices(d)) ELSE NestsOk

(* KernelModel.set_kernel_train(X, choice_column, attributes, hyperparams) *)
SetKernelTrainOp(m, d, h) ==
    LET v  == NestsCheck(m, d)
        c  == ClearKernel(m, "both").km
        sp == SetKernelParams(c.config, h)
        c2 == [c EXCEPT !.config = sp.config]
        cr == CreateKernelMatrix(c2, d, NoData, TRUE, h.mode)
    IN IF v.raised # "" THEN Outcome(m, v.raised, v.kind, v.items)
       ELSE IF sp.raised # "" THEN Outcome(c2, sp.raised, "not a valid KernelModel parameter", <<>>)
       ELSE IF cr.raised # "" THEN cr
       ELSE Outcome([cr.km EXCEPT !.X = d, !.choice_column = d, !.attributes = d],
                    "", "", <<>>)

(* KernelModel.set_kernel_test(Z, choice_column, attributes); column_given:
   whether choice_column was passed (its default is None) *)
SetKernelTestOp(m, d, column_given, mode) ==
    LET v  == NestsCheck(m, d)
        c  == ClearKernel(m, "test").km
        cr == CreateKernelMatrix(c, m.X, d, FALSE, mode)
    IN IF m.nested /\ ~column_given THEN Outcome(m, "KeyError", "None", <<>>)
       ELSE IF v.raised # "" THEN Outcome(m, v.raised, v.kind, v.items)
       ELSE IF m.X = NoData \/ m.K = NoKernel \/ m.choice_column = NoData
               \/ m.attributes = NoData
       THEN Outcome(m, "RuntimeError", MsgNeedTrain, <<>>)
       ELSE IF cr.raised # "" THEN cr
       ELSE Outcome([cr.km EXCEPT !.Z = d], "", "", <<>>)

(* the keys of the record estimator.minimize returns *)
EstimatorResultKeys(nested) ==
    {"alpha", "success", "message"} \cup (IF nested THEN {"lambd"} ELSE {})

(* the keys fit adds to the results *)
FitKeys == {"initial_log_likelihood", "final_log_likelihood", "elapsed_time",
            "mcfadden_r2", "pmle", "pmle_lamda", "method", "history"}

(* the calculus engine a call builds: none, KernelCalcs or NestedKernelCalcs *)
NoEngine == [kind |-> "", K |-> NoKernel, nests |-> <<>>]
Engine(kind, k, nests) == [kind |-> kind, K |-> k, nests |-> nests]

(* the lambd values of fit: "lambd_at_1 = None", then both set to ones when
   the caller gave no lambd_params and the model is nested; "given" is the
   caller's array, "none" is None *)
LambdDefaults(m, lambd_given) ==
    IF ~lambd_given /\ m.nested
    THEN [lambd_params |-> "ones", lambd_at_1 |-> "ones"]
    ELSE [lambd_params |-> IF lambd_given THEN "given" ELSE "none", lambd_at_1 |-> "none"]

(* KernelModel.fit(...); estimator_ok: whether the log-likelihood calls and
   estimator.minimize return (they raise otherwise, before results is set) *)
FitOp(m, lambd_given, estimator_ok) ==
    LET calcs == IF m.nested THEN Engine("nested", m.K, m.nests)
                 ELSE Engine("flat", m.K, <<>>)
        res == [fitted |-> TRUE, x |-> m.K.x, cfg |-> m.K.cfg,
                keys |-> EstimatorResultKeys(m.nested) \cup FitKeys]
        lambd == LambdDefaults(m, lambd_given)
        lls == [calcs |-> calcs, computed |-> FALSE,
                at_zero |-> [alpha |-> "zeros", lambd |-> lambd.lambd_at_1],
                initial |-> [alpha |-> "zeros", lambd |-> lambd.lambd_params],
                start |-> [alpha |-> "zeros", shape |-> m.alpha_shape,
                           size |-> m.n_parameters, lambd |-> lambd.lambd_params]]
    IN IF m.K = NoKernel \/ m.alpha_shape = NoShape
       THEN Outcome(m, "RuntimeError", MsgNeedTrain, [calcs |-> NoEngine, computed |-> FALSE])
       ELSE IF ~estimator_ok
       THEN Outcome(m, "ValueError", "estimator", [calcs |-> calcs, computed |-> FALSE])
       ELSE Outcome([m EXCEPT !.results = res], "", "", lls)

(* variant: the results are not looked at before the probabilities *)
PredictProbaNoFitCheck(m, train, calcs_ok) ==
    LET k == IF train THEN m.K ELSE m.K_test
        calcs == IF m.nested THEN Engine("nested", k, <<>>) ELSE Engine("flat", k, <<>>)
        none == [calcs |-> NoEngine, computed |-> FALSE]
    IN IF m.K = NoKernel THEN Outcome(m, "RuntimeError", MsgNoTrainKernel, none)
       ELSE IF ~train /\ m.K_test = NoKernel THEN Outcome(m, "RuntimeError", MsgNeedTest, none)
       ELSE IF m.nested /\ ~calcs_ok THEN Outcome(m, "TypeError", "nests", none)
       ELSE IF m.nested /\ "lambda" \notin m.results.keys
       THEN Outcome(m, "KeyError", "lambda", [calcs |-> calcs, computed |-> FALSE])
       ELSE Outcome(m, "", "", [calcs |-> calcs, computed |-> TRUE])

(* KernelModel.predict_proba(train); calcs_ok: whether NestedKernelCalcs can
   be built without nests (it raises TypeError otherwise) *)
PredictProba(m, train, calcs_ok) ==
    LET k == IF train THEN m.K ELSE m.K_test
        calcs == IF m.nested THEN Engine("nested", k, <<>>) ELSE Engine("flat", k, <<>>)
        none == [calcs |-> NoEngine, computed |-> FALSE]
    IN IF m.K = NoKernel THEN Outcome(m, "RuntimeError", MsgNoTrainKernel, none)
       ELSE IF ~train /\ m.K_test = NoKernel THEN Outcome(m, "RuntimeError", MsgNeedTest, none)
       ELSE IF m.nested /\ ~calcs_ok THEN Outcome(m, "TypeError", "nests", none)
       ELSE IF ~m.results.fitted
       THEN Outcome(m, "RuntimeError", MsgNeedFit, [calcs |-> calcs, computed |-> FALSE])
       ELSE IF m.nested /\ "lambda" \notin m.results.keys
       THEN Outcome(m, "KeyError", "lambda", [calcs |-> calcs, computed |-> FALSE])
       ELSE Outcome(m, "", "", [calcs |-> calcs, computed |-> TRUE])

(* KernelModel.predict(train): its own test of the train kernel, then
   predict_proba and the arg-max (a built KernelMatrix has alternatives) *)
Predict(m, train, calcs_ok) ==
    IF m.K = NoKernel
    THEN Outcome(m, "RuntimeError", MsgNoTrainKernel, [calcs |-> NoEngine, computed |-> FALSE])
    ELSE PredictProba(m, train, calcs_ok)

(* KernelModel.score(): the stored choice column, then the test kernel and
   the test data, then predict() with its default train = False *)
ScoreOp(m, calcs_ok) ==
    LET none == [calcs |-> NoEngine, computed |-> FALSE]
    IN IF m.choice_column = NoData THEN Outcome(m, "RuntimeError", MsgNeedTrain, none)
       ELSE IF m.K_test = NoKernel \/ m.Z = NoData
       THEN Outcome(m, "RuntimeError", MsgNeedTest, none)
       ELSE Predict(m, FALSE, calcs_ok)

(* no call made yet on the KernelModel; a call is recorded with its
   arguments, the exception raised ("" for none) and its message, what it
   returned or built, and the object's fields before it *)
NoCall == [name |-> "", args |-> <<>>, raised |-> "", msg |-> "", out |-> <<>>,
           pre |-> NewKernelModel(NoModelNests)]

(* ------------------------------- state ---------------------------------- *)
VARIABLES
    inp,          \* the arguments of minimize: fun, x0, jac and the options
    pc,           \* where the call is: start, epoch, batch, epoch_end, return, done, error
    x,            \* the parameter vector
    g,            \* the last gradient
    diff,         \* the last step
    i,            \* the epoch loop counter
    seed,         \* the local seed
    mini_batch_size, \* after the default is applied
    minibatches,  \* the mini-batches of the current epoch
    mbi,          \* position of the inner for loop in minibatches
    loss_total,   \* the loss summed over the epoch's mini-batches
    message,      \* the termination message
    memo,         \* the fields of the MemoizeJac instance (when jac is True)
    rng,          \* the state of numpy's global generator
    result,       \* the OptimizeResult returned
    err,          \* the exception raised
    hist,         \* observation: calls made, seeds and partitions used
    run,          \* number of the minimize call under way (1 or 2)
    first,        \* observation: what the first call returned and drew
    last,         \* observation: the latest MemoizeJac call
    heap,         \* the caller's x0 array and what x is bound to
    km,           \* the fields of the KernelModel object
    fc            \* observation: the latest call on the KernelModel

vars == <<inp, pc, x, g, diff, i, seed, mini_batch_size, minibatches, mbi,
          loss_total, message, memo, rng, result, err, hist, run, first, last, heap,
          km, fc>>

optvars == <<inp, pc, x, g, diff, i, seed, mini_batch_size, minibatches, mbi,
             loss_total, message, memo, rng, result, err, hist, run, first, last, heap>>

facade == <<km, fc>>

loopvars == <<x, g, diff, i, seed, mini_batch_size, minibatches, mbi, loss_total, message>>

(* ------------------------------- inputs --------------------------------- *)
JacForms == {"callable", "True", "None", "other"}
X0s == {<<0, 0>>, <<2, 1>>}
LearningRates == {-1, 0, 1, 2}
BatchSizes == {NoSize} \cup {Size(k) : k \in -1..(MaxSamples + 1)}
SampleCounts == 0..MaxSamples
Gtols == {0, 1, 2}
MaxIters == 0..MaxIter
PrintEverys == {0, 1, 2}
Seeds == {0, 3}

Inputs ==
    [fun_ok : BOOLEAN, jac : JacForms, x0 : X0s, learning_rate : LearningRates,
     mini_batch_size : BatchSizes, n_samples : SampleCounts, gtol : Gtols,
     maxiter : MaxIters, print_every : PrintEverys, seed : Seeds,
     np_raises : BOOLEAN]

NoResult == [x |-> <<>>, fun |-> 0, jac |-> <<>>, nit |-> 0, nfev |-> 0,
             success |-> FALSE, message |-> ""]
NoError == [type |-> "", msg |-> ""]
NoHist == [evals |-> <<>>, losses |-> <<>>, invoked |-> 0, updates |-> 0, seeds |-> <<>>,
           parts |-> <<>>, conv |-> 0, printed |-> <<>>]
NoFirst == [result |-> NoResult, err |-> NoError, parts |-> <<>>, seeds |-> <<>>]
NoLast == [kind |-> "", x |-> <<>>, mb |-> None, cached |-> FALSE, cx |-> <<>>,
           cmb |-> None, invoked |-> 0, raised |-> "", returned |-> None,
           now_cached |-> FALSE, now_cx |-> <<>>, now_cmb |-> None, n |-> 0]
(* states the global generator may be in when minimize is called: whatever
   the process seeded or drew before *)
EntropyStates == {0, 9}

InitCall ==
    /\ pc = "start"
    /\ x = Zeros /\ g = Zeros /\ diff = Zeros
    /\ i = 0 /\ seed = 0 /\ mini_batch_size = 0
    /\ minibatches = <<>> /\ mbi = 0 /\ loss_total = 0
    /\ message = ""
    /\ memo = MemoInit
    /\ result = NoResult /\ err = NoError
    /\ hist = NoHist

Init ==
    /\ inp \in Inputs
    /\ InitCall
    /\ rng \in EntropyStates
    /\ run = 1 /\ first = NoFirst /\ last = NoLast
    /\ heap = NoHeap(inp.x0)
    /\ km = NewKernelModel(NoModelNests)
    /\ fc = NoCall

(* ------------------------------ minimize -------------------------------- *)
(* minimize up to the optimization loop: the jac dispatch, the checks of
   _minimize_mini_batch_sgd and the initialisation before the loop *)
Minimize ==
    /\ pc = "start"
    /\ LET jac == JacAfterDispatch(inp.jac)
           mbs == DefaultBatchSize(inp.mini_batch_size, inp.n_samples)
           m   == Validate(FunCallableAfterDispatch(inp.fun_ok, inp.jac),
                           inp.learning_rate, mbs, inp.n_samples, inp.gtol,
                           inp.maxiter, jac = "None")
       IN IF m # ""
          THEN /\ pc' = "error"
               /\ err' = [type |-> "ValueError", msg |-> m]
               /\ UNCHANGED <<loopvars, heap>>
          ELSE /\ pc' = "epoch"
               /\ x' = heap.x0 /\ g' = Zeros /\ i' = 0
               /\ heap' = [heap EXCEPT !.xref = "x0"]
               /\ seed' = inp.seed
               /\ mini_batch_size' = mbs
               /\ message' = MsgOk
               /\ UNCHANGED <<diff, minibatches, mbi, loss_total, err>>
    /\ memo' = MemoInit
    /\ UNCHANGED facade
    /\ UNCHANGED <<inp, rng, result, hist, run, first, last>>

(* the top of the epoch loop body: seed += 1, the mini-batches of the epoch *)
EpochStart ==
    /\ pc = "epoch"
    /\ LET s  == NextSeed(seed)
           p  == NpRandomPermutation(NpRandomSeed(rng, s), inp.n_samples)
           mbs == RandomMiniBatch(p.indices, inp.n_samples, mini_batch_size)
       IN /\ seed' = s
          /\ minibatches' = mbs
          /\ rng' = p.rng
          /\ hist' = [hist EXCEPT !.seeds = Append(@, s), !.parts = Append(@, mbs)]
    /\ diff' = Zeros
    /\ loss_total' = 0
    /\ mbi' = 1
    /\ pc' = "batch"
    /\ UNCHANGED facade
    /\ UNCHANGED <<inp, x, g, i, mini_batch_size, message, memo, result, err, run, first, last,
                   heap>>

(* a call of fun or jac made by the loop: through the MemoizeJac instance
   when jac is True, otherwise straight to the caller's function *)
CallThrough(m, px, mb) ==
    IF inp.jac = "True"
    THEN ComputeIfNeeded(m, px, mb, inp.n_samples, inp.fun_ok, inp.np_raises)
    ELSE [memo |-> m, invoked |-> 0, raised |-> ""]

(* the body of the inner loop for one mini-batch: the loss on a reporting
   epoch, the gradient, the step and the update *)
BatchStep ==
    /\ pc = "batch"
    /\ LET mb   == Arr(minibatches[mbi])
           rep  == Reporting(inp.print_every, i)
           c0   == [memo |-> memo, invoked |-> 0, raised |-> ""]
           c1   == IF rep THEN CallThrough(memo, x, mb) ELSE c0
           loss == IF inp.jac = "True" THEN c1.memo.value.v[1]
                   ELSE FunValue(x, mb, inp.n_samples)
           c2   == CallThrough(c1.memo, x, mb)
           grad == IF inp.jac = "True" THEN c2.memo.jac.v
                   ELSE FunGrad(x, mb, inp.n_samples)
           step == StepOf(inp.learning_rate, grad)
           upd  == AddStep(heap, x, step)
       IN IF c1.raised # ""
          THEN /\ pc' = "error"
               /\ err' = [type |-> c1.raised, msg |-> "fun"]
               /\ memo' = c1.memo
               /\ hist' = [hist EXCEPT !.invoked = @ + c1.invoked]
               /\ UNCHANGED <<loopvars, heap>>
          ELSE IF c2.raised # ""
          THEN /\ pc' = "error"
               /\ err' = [type |-> c2.raised, msg |-> "jac"]
               /\ memo' = c2.memo
               /\ hist' = [hist EXCEPT
                     !.invoked = @ + c1.invoked + c2.invoked,
                     !.losses = IF rep THEN Append(@, [x |-> x, mb |-> mb.v, value |-> loss, epoch |-> i])
                                ELSE @]
               /\ loss_total' = IF rep THEN loss_total + loss ELSE loss_total
               /\ UNCHANGED <<x, g, diff, i, seed, mini_batch_size, minibatches, mbi, message,
                              heap>>
          ELSE /\ loss_total' = IF rep THEN loss_total + loss ELSE loss_total
               /\ g' = grad
               /\ diff' = step
               /\ x' = upd.x
               /\ heap' = upd.heap
               /\ memo' = c2.memo
               /\ hist' = [hist EXCEPT
                     !.invoked = @ + c1.invoked + c2.invoked,
                     !.losses = IF rep THEN Append(@, [x |-> x, mb |-> mb.v, value |-> loss, epoch |-> i])
                                ELSE @,
                     !.evals = Append(@, [x |-> x, mb |-> mb.v, g |-> grad, epoch |-> i,
                                          inv_loss |-> c1.invoked, inv_grad |-> c2.invoked]),
                     !.updates = @ + 1]
               /\ mbi' = mbi + 1
               /\ pc' = IF mbi = Len(minibatches) THEN "epoch_end" ELSE "batch"
               /\ UNCHANGED <<i, seed, mini_batch_size, minibatches, message, err>>
    /\ UNCHANGED facade
    /\ UNCHANGED <<inp, rng, result, run, first, last>>

(* the end of the epoch loop body: the progress line and the convergence
   test, then the next value of the loop counter *)
EpochEnd ==
    /\ pc = "epoch_end"
    /\ LET rep  == Reporting(inp.print_every, i)
           conv == Converged(diff, inp.gtol)
       IN /\ hist' = [hist EXCEPT
                !.printed = IF rep THEN Append(@, [epoch |-> i, loss_total |-> loss_total,
                                                    nbatches |-> Len(minibatches)])
                            ELSE @,
                !.conv = IF conv THEN i + 1 ELSE @]
          /\ IF conv
             THEN /\ message' = MsgGtol
                  /\ pc' = "return"
                  /\ i' = i
             ELSE /\ message' = message
                  /\ IF i + 1 < inp.maxiter
                     THEN pc' = "epoch" /\ i' = i + 1
                     ELSE pc' = "return" /\ i' = i
    /\ UNCHANGED facade
    /\ UNCHANGED <<inp, x, g, diff, seed, mini_batch_size, minibatches, mbi, loss_total,
                   memo, rng, result, err, run, first, last, heap>>

(* after the loop: i += 1, the limit test and the OptimizeResult, whose fun
   field is fun(x) *)
Return ==
    /\ pc = "return"
    /\ LET c     == CallThrough(memo, x, None)
           limit == HitLimit(i, inp.maxiter)
           msg   == IF limit THEN MsgLimit ELSE message
           fx    == IF inp.jac = "True" THEN c.memo.value.v[1]
                    ELSE FunValue(x, None, inp.n_samples)
       IN /\ i' = i + 1
          /\ message' = msg
          /\ memo' = c.memo
          /\ hist' = [hist EXCEPT !.invoked = @ + c.invoked]
          /\ IF c.raised # ""
             THEN /\ pc' = "error"
                  /\ err' = [type |-> c.raised, msg |-> "fun"]
                  /\ result' = result
                  /\ heap' = heap
             ELSE /\ pc' = "done"
                  /\ err' = err
                  /\ heap' = [heap EXCEPT !.xret = heap.xref]
                  /\ result' = [x |-> x, fun |-> fx, jac |-> g, nit |-> i + 1,
                                nfev |-> i + 1, success |-> ~limit, message |-> msg]
    /\ UNCHANGED facade
    /\ UNCHANGED <<inp, x, g, diff, seed, mini_batch_size, minibatches, mbi, loss_total,
                   rng, run, first, last>>

Next == Minimize \/ EpochStart \/ BatchStep \/ EpochEnd \/ Return

Spec == Init /\ [][Next]_vars

(* ----------------- one call with acceptable arguments ------------------- *)
(* The same call on a data set one sample larger than MaxSamples, every
   argument passing the checks of _minimize_mini_batch_sgd and both functions
   callable: with more than MaxSamples samples an epoch can hold two
   mini-batches of different lengths above one. *)
ValidInputs ==
    [fun_ok : {TRUE}, jac : {"callable", "True"}, x0 : X0s, learning_rate : {1, 2},
     mini_batch_size : {NoSize} \cup {Size(k) : k \in 2..MaxSamples},
     n_samples : {MaxSamples + 1}, gtol : {1, 2},
     maxiter : 1..MaxIter, print_every : {0, 1}, seed : Seeds,
     np_raises : BOOLEAN]

InitValid ==
    /\ inp \in ValidInputs
    /\ InitCall
    /\ rng \in EntropyStates
    /\ run = 1 /\ first = NoFirst /\ last = NoLast
    /\ heap = NoHeap(inp.x0)
    /\ km = NewKernelModel(NoModelNests)
    /\ fc = NoCall

SpecValid == InitValid /\ [][Next]_vars

(* ------------------------- two calls in a row --------------------------- *)
(* A second minimize call with the same arguments, made after the first has
   returned or raised.  A new MemoizeJac instance is built by the call; the
   global generator is where the first call, or anything run in between,
   left it. *)
Rerun ==
    /\ pc \in {"done", "error"}
    /\ run = 1
    /\ first' = [result |-> result, err |-> err, parts |-> hist.parts, seeds |-> hist.seeds]
    /\ run' = 2
    /\ rng' \in EntropyStates \cup {rng}
    /\ pc' = "start"
    /\ x' = Zeros /\ g' = Zeros /\ diff' = Zeros
    /\ i' = 0 /\ seed' = 0 /\ mini_batch_size' = 0
    /\ minibatches' = <<>> /\ mbi' = 0 /\ loss_total' = 0
    /\ message' = ""
    /\ memo' = MemoInit
    /\ result' = NoResult /\ err' = NoError
    /\ hist' = NoHist
    /\ heap' = NoHeap(heap.x0)
    /\ UNCHANGED facade
    /\ UNCHANGED <<inp, last>>

InitTwoRuns ==
    /\ Init
    /\ inp.fun_ok /\ inp.jac \in {"callable", "True"}
    /\ inp.learning_rate > 0 /\ inp.gtol > 0 /\ inp.maxiter > 0

NextTwoRuns == Next \/ Rerun

SpecTwoRuns == InitTwoRuns /\ [][NextTwoRuns]_vars

(* --------------------- MemoizeJac called on its own --------------------- *)
(* the points and mini-batches the wrapper is called with: a mini-batch is
   None or a chunk of a permutation of the sample indices (not empty, no
   index twice), as _random_mini_batch produces them *)
MemoPoints == X0s
MemoBatches(n) ==
    {None} \cup
    {Arr(SubSeq([k \in 1..n |-> k - 1], a, b)) : a \in 1..n, b \in 1..n} \cup
    {Arr(SubSeq([k \in 1..n |-> n - k], a, b)) : a \in 1..n, b \in 1..n}
MemoBatchArgs == {mb \in MemoBatches(MemoSamples) : mb = None \/ Len(mb.v) >= 1}

InitMemo ==
    /\ inp \in {[fun_ok |-> TRUE, jac |-> "True", x0 |-> Zeros, learning_rate |-> 1,
                 mini_batch_size |-> NoSize, n_samples |-> MemoSamples, gtol |-> 1,
                 maxiter |-> 1, print_every |-> 0, seed |-> 0, np_raises |-> b] :
                b \in BOOLEAN}
    /\ pc = "memo"
    /\ x = Zeros /\ g = Zeros /\ diff = Zeros
    /\ i = 0 /\ seed = 0 /\ mini_batch_size = 0
    /\ minibatches = <<>> /\ mbi = 0 /\ loss_total = 0
    /\ message = ""
    /\ memo = MemoInit
    /\ result = NoResult /\ err = NoError
    /\ hist = NoHist
    /\ rng = 0
    /\ run = 1 /\ first = NoFirst /\ last = NoLast
    /\ heap = NoHeap(inp.x0)
    /\ km = NewKernelModel(NoModelNests)
    /\ fc = NoCall

(* MemoizeJac.__call__(x, minibatch) (kind "value") or
   MemoizeJac.derivative(x, minibatch) (kind "derivative"), any number of
   times.  `last` records the call (n: whether there was one), what the cache
   held before it, and what the call returned. *)
MemoCall(kind, px, mb) ==
    /\ pc = "memo"
    /\ LET c == ComputeIfNeeded(memo, px, mb, inp.n_samples, inp.fun_ok, inp.np_raises)
           filled == c.invoked >= 1 /\ c.raised = ""
       IN /\ memo' = c.memo
          /\ last' = [kind |-> kind, x |-> px, mb |-> mb,
                      cached |-> last.now_cached, cx |-> last.now_cx, cmb |-> last.now_cmb,
                      invoked |-> c.invoked, raised |-> c.raised,
                      returned |-> IF c.raised # "" THEN None
                                   ELSE IF kind = "value" THEN c.memo.value ELSE c.memo.jac,
                      now_cached |-> (filled \/ last.now_cached),
                      now_cx |-> IF filled THEN px ELSE last.now_cx,
                      now_cmb |-> IF filled THEN mb ELSE last.now_cmb,
                      n |-> 1]
    /\ UNCHANGED facade
    /\ UNCHANGED <<inp, pc, x, g, diff, i, seed, mini_batch_size, minibatches, mbi,
                   loss_total, message, rng, result, err, hist, run, first, heap>>

NextMemo ==
    \E kind \in {"value", "derivative"}, px \in MemoPoints, mb \in MemoBatchArgs :
        MemoCall(kind, px, mb)

SpecMemo == InitMemo /\ [][NextMemo]_vars

(* ---------------- MemoizeJac called with any mini-batch ----------------- *)
(* the wrapper takes whatever its caller passes as minibatch: None or any
   index array, here of up to two indices, an index possibly twice, or none
   at all *)
AnyBatchArgs ==
    {None, Arr(<<>>)} \cup
    {Arr(<<a>>) : a \in 0..(MemoSamples - 1)} \cup
    {Arr(<<a, b>>) : a \in 0..(MemoSamples - 1), b \in 0..(MemoSamples - 1)}

NextMemoAny ==
    \E kind \in {"value", "derivative"}, px \in MemoPoints, mb \in AnyBatchArgs :
        MemoCall(kind, px, mb)

SpecMemoAny == InitMemo /\ [][NextMemoAny]_vars

(* ---------------------- validate_nests on its own ----------------------- *)
(* the nests validate_nests is called with: up to two lists of up to two
   alternative identifiers each, or three lists of one identifier *)
NestLists == {<<>>} \cup {<<a>> : a \in AltIds} \cup {<<a, b>> : a \in AltIds, b \in AltIds}
NestsArgs ==
    {<<>>} \cup {<<p>> : p \in NestLists} \cup {<<p, q>> : p \in NestLists, q \in NestLists}
    \cup {<<<<a>>, <<b>>, <<c>>>> : a \in AltIds, b \in AltIds, c \in AltIds}

(* no optimizer call is under way *)
OptimizerIdle ==
    /\ inp \in {[fun_ok |-> TRUE, jac |-> "callable", x0 |-> Zeros, learning_rate |-> 1,
                 mini_batch_size |-> NoSize, n_samples |-> 1, gtol |-> 1,
                 maxiter |-> 1, print_every |-> 0, seed |-> 0, np_raises |-> FALSE]}
    /\ pc = "facade"
    /\ x = Zeros /\ g = Zeros /\ diff = Zeros
    /\ i = 0 /\ seed = 0 /\ mini_batch_size = 0
    /\ minibatches = <<>> /\ mbi = 0 /\ loss_total = 0
    /\ message = ""
    /\ memo = MemoInit
    /\ result = NoResult /\ err = NoError
    /\ hist = NoHist
    /\ rng = 0
    /\ run = 1 /\ first = NoFirst /\ last = NoLast
    /\ heap = NoHeap(inp.x0)

InitNests ==
    /\ OptimizerIdle
    /\ km = NewKernelModel(NoModelNests)
    /\ fc \in {[NoCall EXCEPT !.args = [nests |-> nests, alternatives |-> alternatives]] :
                  nests \in NestsArgs, alternatives \in SUBSET AltIds}

(* model.validate_nests(nests, alternatives) with the arguments chosen *)
ValidateNestsCall ==
    /\ pc = "facade" /\ fc.name = ""
    /\ LET r == ValidateNests(fc.args.nests, fc.args.alternatives)
       IN fc' = [fc EXCEPT !.name = "validate_nests",
                           !.raised = r.raised, !.msg = r.kind, !.out = r.items]
    /\ UNCHANGED km
    /\ UNCHANGED optvars

NextNests == ValidateNestsCall

SpecNests == InitNests /\ [][NextNests]_vars

(* ------------------------ the KernelModel facade ------------------------ *)
(* the values of model_params["nests"] a model is built with *)
ModelNestsForms ==
    {NoModelNests,
     [given |-> TRUE, list |-> FALSE, v |-> <<>>],
     NestsParam(<<>>),
     NestsParam(<<Nest(<<1, 2, 3>>)>>),
     NestsParam(<<Nest(<<1, 2>>), [list |-> FALSE, ints |-> FALSE, v |-> <<>>]>>),
     NestsParam(<<Nest(<<1, 2>>), Nest(<<>>)>>),
     NestsParam(<<Nest(<<1, 2>>), [list |-> TRUE, ints |-> FALSE, v |-> <<3>>]>>),
     NestsParam(<<Nest(<<1, 2>>), Nest(<<3>>)>>),
     NestsParam(<<Nest(<<1, 2>>), Nest(<<2, 3>>)>>),
     NestsParam(<<Nest(<<1>>), Nest(<<2>>)>>)}

InitKernel ==
    /\ OptimizerIdle
    /\ km \in {NewKernelModel(p) : p \in ModelNestsForms}
    /\ fc = NoCall

(* a public method of the model is called: the object's fields afterwards
   and the record of the call *)
FacadeCall(name, args, r) ==
    /\ pc = "facade"
    /\ km' = r.km
    /\ fc' = [name |-> name, args |-> args, raised |-> r.raised, msg |-> r.msg,
              out |-> r.out, pre |-> km]
    /\ UNCHANGED optvars

SetKernelTrain(d, h) ==
    FacadeCall("set_kernel_train", [X |-> d, hyperparams |-> h], SetKernelTrainOp(km, d, h))

SetKernelTest(d, column_given, mode) ==
    FacadeCall("set_kernel_test", [Z |-> d, column_given |-> column_given, mode |-> mode],
               SetKernelTestOp(km, d, column_given, mode))

ClearKernelCall(dataset) ==
    FacadeCall("clear_kernel", [dataset |-> dataset], ClearKernel(km, dataset))

GetKernelCall(dataset) ==
    FacadeCall("get_kernel", [dataset |-> dataset], GetKernel(km, dataset))

Fit(lambd_given, estimator_ok) ==
    FacadeCall("fit", [lambd_given |-> lambd_given, estimator_ok |-> estimator_ok],
               FitOp(km, lambd_given, estimator_ok))

PredictProbaCall(train, calcs_ok) ==
    FacadeCall("predict_proba", [train |-> train, calcs_ok |-> calcs_ok],
               PredictProba(km, train, calcs_ok))

PredictCall(train, calcs_ok) ==
    FacadeCall("predict", [train |-> train, calcs_ok |-> calcs_ok],
               Predict(km, train, calcs_ok))

Score(calcs_ok) ==
    FacadeCall("score", [train |-> FALSE, calcs_ok |-> calcs_ok], ScoreOp(km, calcs_ok))

DatasetArgs == {"train", "test", "both", "all"}

NextKernel ==
    \/ \E d \in Frames, h \in Hypers : SetKernelTrain(d, h)
    \/ \E d \in Frames, column_given \in BOOLEAN, mode \in {"ok", "bad_matrix"} :
          SetKernelTest(d, column_given, mode)
    \/ \E dataset \in DatasetArgs : ClearKernelCall(dataset)
    \/ \E dataset \in DatasetArgs : GetKernelCall(dataset)
    \/ \E lambd_given \in BOOLEAN, estimator_ok \in BOOLEAN : Fit(lambd_given, estimator_ok)
    \/ \E train \in BOOLEAN, calcs_ok \in BOOLEAN : PredictProbaCall(train, calcs_ok)
    \/ \E train \in BOOLEAN, calcs_ok \in BOOLEAN : PredictCall(train, calcs_ok)
    \/ \E calcs_ok \in BOOLEAN : Score(calcs_ok)

SpecKernel == InitKernel /\ [][NextKernel]_vars

(* ------------------------- shared by the claims ------------------------- *)
(* every option of the call is acceptable and both functions can be called *)
ValidCall ==
    /\ inp.learning_rate > 0 /\ inp.n_samples > 0 /\ inp.gtol > 0 /\ inp.maxiter > 0
    /\ inp.mini_batch_size.given =>
          (inp.mini_batch_size.v > 0 /\ inp.mini_batch_size.v <= inp.n_samples)
    /\ inp.fun_ok /\ inp.jac \in {"callable", "True"}

(* number of epochs whose loop body has started *)
EpochsStarted == Len(hist.parts)

(* x0 - learning_rate * (sum of the first k gradients evaluated) *)
RECURSIVE PointAfter(_)
PointAfter(k) ==
    IF k = 0 THEN inp.x0
    ELSE VecAdd(PointAfter(k - 1), VecScale(-inp.learning_rate, hist.evals[k].g))

(* C1: if the last mini-batch's step of epoch e (1 <= e <= maxiter) is within
   gtol in every component, the run stops after epoch e and returns
   success = True with the success message. *)
C1_ConvergedReturnsSuccess ==
    hist.conv > 0 =>
        /\ pc \in {"return", "done"}
        /\ EpochsStarted = hist.conv
        /\ pc = "done" =>
              (result.success /\ result.message = MsgGtol /\ result.nit = hist.conv)

(* C2: when maxiter epochs ran and the convergence test held after none of
   them, the result has success = False, the limit message, and exactly
   maxiter epochs were executed. *)
C2_LimitReached ==
    (pc = "done" /\ hist.conv = 0) =>
        /\ ~result.success
        /\ result.message = MsgLimit
        /\ EpochsStarted = inp.maxiter
        /\ result.nit = inp.maxiter

C2_Witness ==
    /\ pc = "done" /\ hist.conv = 0 /\ inp.maxiter >= 2
    /\ ~result.success /\ Len(hist.evals) >= 2

(* C3: a non-positive learning rate, mini-batch size, n_samples, gtol or
   maxiter, or a mini-batch size above n_samples, is rejected with an error
   before any epoch: no objective call and no gradient call was made. *)
InvalidOptions ==
    \/ inp.learning_rate <= 0
    \/ inp.mini_batch_size.given /\ inp.mini_batch_size.v <= 0
    \/ inp.mini_batch_size.given /\ inp.mini_batch_size.v > inp.n_samples
    \/ inp.n_samples <= 0
    \/ inp.gtol <= 0
    \/ inp.maxiter <= 0

C3_InvalidOptionsRejected ==
    (InvalidOptions /\ pc # "start") =>
        /\ pc = "error" /\ err.type = "ValueError"
        /\ EpochsStarted = 0
        /\ hist.evals = <<>> /\ hist.losses = <<>> /\ hist.invoked = 0

C3_Witness ==
    /\ pc = "error" /\ err.type = "ValueError"
    /\ inp.fun_ok /\ inp.jac = "callable"
    /\ inp.learning_rate > 0 /\ inp.gtol > 0 /\ inp.maxiter > 0 /\ inp.n_samples > 0
    /\ inp.mini_batch_size.given /\ inp.mini_batch_size.v > inp.n_samples

(* C4: an objective that cannot be called, a gradient that cannot be called
   and a missing gradient are rejected before any epoch, whatever the form of
   jac: no epoch starts and no call of the objective or gradient is attempted. *)
C4_BadCallablesRejected ==
    ((~inp.fun_ok \/ inp.jac \in {"None", "other"}) /\ pc # "start") =>
        /\ pc = "error"
        /\ EpochsStarted = 0
        /\ hist.invoked = 0

(* C5: the mini-batches of every epoch are the consecutive chunks of one
   permutation of [0, n_samples): each index is in exactly one mini-batch,
   there are ceil(n_samples / mini_batch_size) of them, all of size
   mini_batch_size except possibly the last, which is not empty. *)
IsChunkedPermutation(mbs, n, size) ==
    LET flat == Concat(mbs)
    IN /\ Len(flat) = n
       /\ Range(flat) = 0..(n - 1)
       /\ Len(mbs) * size >= n /\ (Len(mbs) - 1) * size < n
       /\ \A k \in 1..(Len(mbs) - 1) : Len(mbs[k]) = size
       /\ Len(mbs) >= 1 /\ Len(mbs[Len(mbs)]) \in 1..size

C5_BatchesPartitionSamples ==
    \A e \in DOMAIN hist.parts :
        IsChunkedPermutation(hist.parts[e], inp.n_samples, mini_batch_size)

C5_Witness ==
    /\ pc = "batch" /\ Len(minibatches) >= 2
    /\ Len(minibatches[Len(minibatches)]) < mini_batch_size
    /\ Concat(minibatches) # [k \in 1..inp.n_samples |-> k - 1]

(* C6 as stated: the permutation of epoch k (k = 0 for the first epoch) is
   drawn with seed base_seed + k. *)
C6_SeedIsBasePlusIndex ==
    \A k \in 0..(Len(hist.seeds) - 1) : hist.seeds[k + 1] = inp.seed + k

(* C6, amended: the permutation of epoch k (k = 0 for the first epoch) is
   drawn with seed base_seed + k + 1, so the seed grows by exactly 1 from one
   epoch to the next and the first epoch uses base_seed + 1. *)
C6_SeedIsBasePlusIndexPlusOne ==
    /\ Len(hist.seeds) = Len(hist.parts)
    /\ \A k \in 0..(Len(hist.seeds) - 1) :
          /\ hist.seeds[k + 1] = inp.seed + k + 1
          /\ Concat(hist.parts[k + 1]) =
                NpRandomPermutation((inp.seed + k + 1) % 64, inp.n_samples).indices
    /\ \A k \in 1..(Len(hist.seeds) - 1) : hist.seeds[k + 1] = hist.seeds[k] + 1

C6_Witness ==
    /\ Len(hist.seeds) >= 3 /\ inp.seed > 0 /\ inp.n_samples >= 3

(* C7: with mini_batch_size not given and n_samples > 0 the size is n_samples:
   every epoch is one mini-batch holding all n_samples indices, so one
   gradient evaluation and one update happen per epoch. *)
C7_DefaultIsFullBatch ==
    (ValidCall /\ ~inp.mini_batch_size.given /\ pc \notin {"start", "error"}) =>
        /\ mini_batch_size = inp.n_samples
        /\ \A e \in DOMAIN hist.parts :
              /\ Len(hist.parts[e]) = 1
              /\ Len(hist.parts[e][1]) = inp.n_samples
              /\ Range(hist.parts[e][1]) = 0..(inp.n_samples - 1)
        /\ Len(hist.evals) = (IF pc = "batch" THEN EpochsStarted - 1 ELSE EpochsStarted)
        /\ hist.updates = Len(hist.evals)

C7_Witness ==
    /\ ValidCall /\ ~inp.mini_batch_size.given /\ pc = "done"
    /\ inp.n_samples >= 2 /\ EpochsStarted >= 2 /\ hist.updates = EpochsStarted

(* C8: the updates are applied one per mini-batch in chunk order, each
   gradient evaluated on that mini-batch at the point left by the previous
   update; the returned x is x0 - learning_rate * (sum of all gradients
   evaluated during the run). *)
C8_SequentialUpdates ==
    /\ \A k \in DOMAIN hist.evals :
          /\ hist.evals[k].x = PointAfter(k - 1)
          /\ hist.evals[k].mb = Concat(hist.parts)[k]
          /\ hist.evals[k].g = FunGrad(hist.evals[k].x, Arr(hist.evals[k].mb), inp.n_samples)
    /\ pc \in {"epoch", "batch", "epoch_end", "return"} => x = PointAfter(Len(hist.evals))
    /\ pc = "done" => result.x = PointAfter(Len(hist.evals))

C8_Witness ==
    /\ pc = "done" /\ Len(hist.evals) >= 4 /\ Len(hist.parts[1]) >= 2
    /\ result.x # inp.x0
    /\ \E k \in DOMAIN hist.evals : hist.evals[k].x # inp.x0 /\ hist.evals[k].g # Zeros

(* C9: two runs with the same objective, x0 and options draw, epoch by
   epoch, the same mini-batch partitions and return the same x, nit, success
   and message. *)
C9_RunsAgree ==
    run = 2 =>
        /\ \A e \in DOMAIN hist.parts :
              e <= Len(first.parts) /\ hist.parts[e] = first.parts[e]
        /\ pc = "done" =>
              /\ hist.parts = first.parts
              /\ result.x = first.result.x /\ result.nit = first.result.nit
              /\ result.success = first.result.success
              /\ result.message = first.result.message
        /\ pc = "error" => err = first.err

C9_Witness ==
    /\ run = 2 /\ pc = "done"
    /\ Len(hist.parts) >= 2 /\ Len(hist.parts[1]) >= 2
    /\ hist.parts[1] # hist.parts[2]
    /\ result.x # inp.x0 /\ result = first.result

(* C10: a call of the wrapper with (x, minibatch) invokes the wrapped
   function if and only if nothing is cached or x or minibatch differs from
   those of the last cached call; otherwise the wrapped function is not
   invoked and the cached value or gradient is returned.  minibatch may be
   None on either side. *)
C10_InvokedIffArgsDiffer ==
    last.n > 0 =>
        LET differs == ~last.cached \/ last.x # last.cx \/ last.mb # last.cmb
            fg == WrappedFun(last.cx, last.cmb, inp.n_samples)
        IN /\ (last.invoked >= 1) <=> differs
           /\ ~differs =>
                 /\ last.raised = ""
                 /\ last.returned = (IF last.kind = "value" THEN fg.value ELSE fg.jac)

(* C10 on a numpy whose == yields False for shapes that cannot be broadcast *)
C10_HoldsWithoutShapeError == inp.np_raises \/ C10_InvokedIffArgsDiffer

(* the epoch index is a reporting one: print_every > 0 divides it *)
IsReportingEpoch(e) == inp.print_every > 0 /\ e % inp.print_every = 0

(* C11: with jac = True the wrapped function is invoked at most once per
   mini-batch step in every epoch; on a reporting epoch the loss request and
   the gradient request that follows it share one invocation (the gradient
   request invokes nothing); no single call of the wrapper invokes the
   wrapped function twice. *)
C11_OneInvocationPerStep ==
    inp.jac = "True" =>
        /\ \A k \in DOMAIN hist.evals :
              /\ hist.evals[k].inv_loss <= 1 /\ hist.evals[k].inv_grad <= 1
              /\ hist.evals[k].inv_loss + hist.evals[k].inv_grad <= 1
              /\ IsReportingEpoch(hist.evals[k].epoch) => hist.evals[k].inv_grad = 0
        /\ hist.invoked <= Len(hist.evals) + (IF pc \in {"done", "error"} THEN 1 ELSE 0)

C11_Witness ==
    /\ inp.jac = "True" /\ pc = "done" /\ inp.print_every = 2
    /\ \E k \in DOMAIN hist.evals :
          /\ hist.evals[k].epoch = 0 /\ k >= 2
          /\ hist.evals[k].inv_loss = 1 /\ hist.evals[k].inv_grad = 0
    /\ \E k \in DOMAIN hist.evals :
          hist.evals[k].epoch = 1 /\ hist.evals[k].inv_grad = 1
    /\ hist.invoked = Len(hist.evals) + 1

(* C11 for the wrapper called on its own: one call, at most one invocation *)
C11_SingleCallInvokesOnce == last.invoked <= 1

(* the steps taken in reporting epochs, in order *)
ReportingSteps == SelectSeq(hist.evals, LAMBDA e : IsReportingEpoch(e.epoch))

(* number of epochs whose loop body ran to its end *)
EpochsEnded == IF pc \in {"batch", "epoch_end"} THEN EpochsStarted - 1 ELSE EpochsStarted

(* the loss values recorded in epoch e, in order *)
LossesOfEpoch(e) ==
    LET ls == SelectSeq(hist.losses, LAMBDA l : l.epoch = e)
    IN [k \in 1..Len(ls) |-> ls[k].value]

(* C12: inside the loop the objective is evaluated once per mini-batch, at
   the point before that mini-batch's update, in every reporting epoch and in
   no other epoch (never when print_every = 0); the loss reported for an
   epoch is the sum of those values over the number of mini-batches. *)
C12_LossOnReportingEpochsOnly ==
    /\ \A k \in DOMAIN hist.losses :
          /\ IsReportingEpoch(hist.losses[k].epoch)
          /\ hist.losses[k].value =
                FunValue(hist.losses[k].x, Arr(hist.losses[k].mb), inp.n_samples)
    /\ inp.print_every = 0 => (hist.losses = <<>> /\ hist.printed = <<>>)
    /\ pc # "error" =>
          /\ Len(hist.losses) = Len(ReportingSteps)
          /\ \A k \in DOMAIN hist.losses :
                /\ hist.losses[k].x = ReportingSteps[k].x
                /\ hist.losses[k].mb = ReportingSteps[k].mb
                /\ hist.losses[k].epoch = ReportingSteps[k].epoch
          /\ {hist.printed[k].epoch : k \in DOMAIN hist.printed} =
                {e \in 0..(EpochsEnded - 1) : IsReportingEpoch(e)}
          /\ Len(hist.printed) = Cardinality({e \in 0..(EpochsEnded - 1) : IsReportingEpoch(e)})
    /\ \A k \in DOMAIN hist.printed :
          /\ hist.printed[k].nbatches = Len(hist.parts[hist.printed[k].epoch + 1])
          /\ Len(LossesOfEpoch(hist.printed[k].epoch)) = hist.printed[k].nbatches
          /\ hist.printed[k].loss_total = SumSeq(LossesOfEpoch(hist.printed[k].epoch))

C12_Witness ==
    /\ pc = "done" /\ inp.print_every = 2 /\ EpochsStarted >= 3
    /\ Len(hist.parts[1]) >= 2
    /\ Len(hist.printed) = 2 /\ hist.printed[2].loss_total > 0
    /\ Len(hist.losses) < Len(hist.evals)

(* positions (nest, place) at which alternative a stands in the nests *)
PlacesOf(nests, a) ==
    UNION {{<<n, k>> : k \in {j \in DOMAIN nests[n] : nests[n][j] = a}} : n \in DOMAIN nests}

(* the members of the nests *)
MembersOf(nests) == UNION {Range(nests[n]) : n \in DOMAIN nests}

(* the nests partition the alternatives *)
IsPartition(nests, alternatives) ==
    /\ \A a \in alternatives : Cardinality(PlacesOf(nests, a)) = 1
    /\ MembersOf(nests) \subseteq alternatives

(* C13: validate_nests(nests, alternatives) returns without an error exactly
   when every observed alternative stands at exactly one place of the nests
   and no member of a nest is outside the observed alternatives; otherwise it
   raises. *)
C13_PassesIffPartition ==
    fc.name = "validate_nests" =>
        /\ fc.raised \in {"", "ValueError"}
        /\ (fc.raised = "") <=> IsPartition(fc.args.nests, fc.args.alternatives)

C13_Witness ==
    /\ fc.name = "validate_nests" /\ fc.raised = ""
    /\ fc.args.nests = <<<<1, 2>>, <<3>>>> /\ fc.args.alternatives = {1, 2, 3}

(* C14: when an observed alternative is in no nest the error is the
   "missing" one and lists exactly the missing alternatives; when nothing is
   missing or extra and an alternative stands at more than one place the
   error is the "duplicates" one and lists exactly those alternatives. *)
C14_ErrorListsOffenders ==
    fc.name = "validate_nests" =>
        LET nests == fc.args.nests
            alts == fc.args.alternatives
            missing == {a \in alts : PlacesOf(nests, a) = {}}
            extra == MembersOf(nests) \ alts
            twice == {a \in AltIds : Cardinality(PlacesOf(nests, a)) > 1}
        IN /\ missing # {} =>
                 /\ fc.raised = "ValueError"
                 /\ fc.msg = "Missing alternatives in nests" /\ fc.out = missing
           /\ (missing = {} /\ extra = {} /\ twice # {}) =>
                 /\ fc.raised = "ValueError"
                 /\ fc.msg = "Duplicates alternatives in nests" /\ fc.out = twice

C14_Witness ==
    /\ fc.name = "validate_nests" /\ fc.raised = "ValueError"
    /\ fc.args.nests = <<<<1, 2>>, <<3>>>> /\ fc.args.alternatives = {1, 2, 3, 4}
    /\ fc.msg = "Missing alternatives in nests" /\ fc.out = {4}

(* C14, the second example: nests [[1,2],[2,3]] against {1,2,3} *)
C14_DuplicateExample ==
    /\ fc.name = "validate_nests" /\ fc.raised = "ValueError"
    /\ fc.args.nests = <<<<1, 2>>, <<2, 3>>>> /\ fc.args.alternatives = {1, 2, 3}
    /\ fc.msg = "Duplicates alternatives in nests" /\ fc.out = {2}

(* the nests given in model_params are malformed: not a list, an empty
   list, a single nest, or with a nest that is not a list, is empty or has a
   member that is not an int *)
Malformed(p) ==
    /\ p.given
    /\ \/ ~p.list
       \/ Len(p.v) = 0
       \/ Len(p.v) = 1
       \/ \E k \in DOMAIN p.v : ~p.v[k].list \/ Len(p.v[k].v) = 0 \/ ~p.v[k].ints

(* C15: a model built with malformed nests never gets through
   set_kernel_train and fit without an error as a flat model: a fit on it
   does not complete with the flat calculus engine. *)
C15_MalformedNestsRaise ==
    (Malformed(km.model_params) /\ fc.name = "fit") =>
        ~(fc.raised = "" /\ fc.out.calcs.kind = "flat")

(* C16: whenever a nested model holds a train kernel, its nests partition
   the alternatives seen in the training data the kernel was built from; fit
   builds the nested calculus engine only on such nests. *)
C16_NestsValidatedBeforeUse ==
    /\ (km.nested /\ km.K # NoKernel) => IsPartition(km.nests, UniqueChoices(km.K.x))
    /\ (fc.name = "fit" /\ fc.out.calcs.kind = "nested") =>
          IsPartition(fc.out.calcs.nests, UniqueChoices(fc.out.calcs.K.x))

C16_Witness ==
    /\ km.nested /\ km.K # NoKernel /\ km.K.x = 1
    /\ fc.name = "fit" /\ fc.raised = "" /\ fc.out.calcs.kind = "nested"
    /\ fc.out.calcs.nests = <<<<1, 2>>, <<3>>>>

(* C17: fit raises when no train kernel is held and leaves the model as it
   was; predict_proba and predict raise when no train kernel is held, when
   train = False and no test kernel is held, and when there are no fit
   results, computing and changing nothing; so probabilities are computed
   only with a train kernel, fit results and, for train = False, a test
   kernel. *)
C17_PreconditionsRaise ==
    /\ (fc.name = "fit" /\ fc.pre.K = NoKernel) =>
          (fc.raised = "RuntimeError" /\ fc.msg = MsgNeedTrain /\ km = fc.pre)
    /\ fc.name \in {"predict_proba", "predict"} =>
          /\ (\/ fc.pre.K = NoKernel
              \/ ~fc.args.train /\ fc.pre.K_test = NoKernel
              \/ ~fc.pre.results.fitted) =>
                (fc.raised # "" /\ ~fc.out.computed)
          /\ km = fc.pre
          /\ fc.out.computed =>
                /\ fc.raised = ""
                /\ fc.pre.K # NoKernel /\ fc.pre.results.fitted
                /\ ~fc.args.train => fc.pre.K_test # NoKernel

C17_Witness ==
    /\ fc.name = "predict" /\ ~fc.args.train /\ fc.out.computed
    /\ km.K_test # NoKernel /\ km.results.fitted

(* C18: after a set_kernel_train call that raised, the model holds no train
   kernel, and config, X, choice_column, attributes and alpha_shape are not
   part the failed call's values and part those of an earlier call. *)
C18_FailedTrainLeavesNothing ==
    (fc.name = "set_kernel_train" /\ fc.raised # "") =>
        LET d == fc.args.X
            h == fc.args.hyperparams
            old == fc.pre
            new == [kernel |-> h.kernel, kernel_params |-> h.id, X |-> d,
                    choice_column |-> d, attributes |-> d,
                    alpha_shape |-> AlphaShape([x |-> d, alts |-> UniqueChoices(d)])]
            now == [kernel |-> km.config.kernel, kernel_params |-> km.config.kernel_params,
                    X |-> km.X, choice_column |-> km.choice_column,
                    attributes |-> km.attributes, alpha_shape |-> km.alpha_shape]
            was == [kernel |-> old.config.kernel, kernel_params |-> old.config.kernel_params,
                    X |-> old.X, choice_column |-> old.choice_column,
                    attributes |-> old.attributes, alpha_shape |-> old.alpha_shape]
            unset == [kernel |-> NewConfig.kernel, kernel_params |-> NewConfig.kernel_params,
                      X |-> NoData, choice_column |-> NoData, attributes |-> NoData,
                      alpha_shape |-> NoShape]
            fromNew == {f \in DOMAIN now : now[f] = new[f] /\ was[f] # new[f]}
            fromOld == {f \in DOMAIN now : now[f] = was[f] /\ was[f] # new[f]
                                            /\ was[f] # unset[f]}
        IN /\ km.K = NoKernel
           /\ ~(fromNew # {} /\ fromOld # {})

(* C18, first half alone: no train kernel is held after a failed call *)
C18_NoStaleTrainKernel ==
    (fc.name = "set_kernel_train" /\ fc.raised # "") => km.K = NoKernel

(* C18, second half alone, for calls that got past the nests validation *)
C18_NoMixedState ==
    (fc.name = "set_kernel_train" /\ fc.raised # "" /\ km.K = NoKernel) =>
        C18_FailedTrainLeavesNothing

(* C19: get_kernel returns without raising for "train", "test" and "both",
   raises ValueError for any other value, and leaves the model as it was. *)
C19_GetKernelAcceptsDocumented ==
    fc.name = "get_kernel" =>
        /\ fc.args.dataset \in {"train", "test", "both"} => fc.raised = ""
        /\ fc.args.dataset \notin {"train", "test", "both"} => fc.raised = "ValueError"
        /\ km = fc.pre

(* C19 without "both": the other values behave as documented *)
C19_HoldsExceptBoth ==
    (fc.name = "get_kernel" /\ fc.args.dataset # "both") => C19_GetKernelAcceptsDocumented

(* C20: minimize never changes the array passed as x0, and the x it returns
   is another object than that array, after a converged run and after one
   that hit the epoch limit alike. *)
C20_StartVectorNotAliased ==
    /\ heap.x0 = inp.x0
    /\ pc = "done" => heap.xret = "new"
    /\ (pc \in {"batch", "epoch_end", "return"} /\ hist.evals # <<>>) => heap.xref = "new"

C20_Witness ==
    /\ pc = "done" /\ heap.xret = "new"
    /\ result.x # inp.x0 /\ heap.x0 = inp.x0
    /\ hist.conv = 0 /\ Len(hist.evals) >= 2

(* the step taken at the k-th gradient evaluation of the run *)
StepAt(k) == VecScale(-inp.learning_rate, hist.evals[k].g)

(* every component of the step is within gtol *)
WithinGtol(v) == \A j \in 1..Dim : Abs(v[j]) <= inp.gtol

(* the evaluations made in epoch e (0 for the first): first and last number *)
FirstOfEpoch(e) == Len(Concat(SubSeq(hist.parts, 1, e))) + 1
LastOfEpoch(e) == Len(Concat(SubSeq(hist.parts, 1, e + 1)))

(* C21: the convergence test is made once per epoch, after the epoch's last
   mini-batch, on that mini-batch's step alone: the run never stops inside an
   epoch; an epoch stops the run exactly when its last step is within gtol,
   whatever its earlier steps were. *)
C21_TestOnLastStepOnly ==
    pc # "error" =>
        /\ \A e \in 0..(EpochsEnded - 1) :
              (hist.conv = e + 1) <=> WithinGtol(StepAt(LastOfEpoch(e)))
        /\ hist.conv > 0 => (EpochsStarted = hist.conv /\ pc \in {"return", "done"})
        /\ pc \in {"return", "done"} => Len(hist.evals) = Len(Concat(hist.parts))
        /\ pc \in {"return", "done"} => (hist.conv > 0 \/ EpochsStarted = inp.maxiter)

(* an epoch that went on to the next although every step before its last
   one was within gtol *)
C21_Witness ==
    /\ pc = "done"
    /\ \E e \in 0..(EpochsStarted - 2) :
          /\ Len(hist.parts[e + 1]) >= 2
          /\ \A k \in FirstOfEpoch(e)..(LastOfEpoch(e) - 1) : WithinGtol(StepAt(k))
          /\ ~WithinGtol(StepAt(LastOfEpoch(e)))

(* C21, the other case: an epoch before the last allowed one that stopped
   the run on its last step although an earlier step of it exceeded gtol *)
C21_StopsDespiteEarlierSteps ==
    /\ pc = "done" /\ hist.conv > 0 /\ hist.conv < inp.maxiter
    /\ \E k \in FirstOfEpoch(hist.conv - 1)..(LastOfEpoch(hist.conv - 1) - 1) :
          ~WithinGtol(StepAt(k))

(* C22: a call with acceptable arguments never ends in an exception; when it
   has returned it has run k whole epochs, 1 <= k <= maxiter, reports
   nit = k, and k < maxiter only if the convergence test held at the end of
   epoch k. *)
C22_ValidCallRunsWholeEpochs ==
    ValidCall =>
        /\ pc # "error"
        /\ pc = "done" =>
              /\ result.nit = EpochsStarted
              /\ result.nit >= 1 /\ result.nit <= inp.maxiter
              /\ Len(hist.evals) = Len(Concat(hist.parts))
              /\ result.nit < inp.maxiter => hist.conv = result.nit

(* C22 on a build whose numpy compares arrays of different lengths as
   unequal instead of raising *)
C22_HoldsWithoutShapeError == ~inp.np_raises => C22_ValidCallRunsWholeEpochs

(* C22: the exit C22_ValidCallRunsWholeEpochs excludes is taken inside an
   epoch, with mini-batches of that epoch still to be processed *)
C22_NoExitInsideEpoch ==
    ~(ValidCall /\ pc = "error" /\ err.type = "ValueError"
      /\ Len(hist.evals) < Len(Concat(hist.parts)))

(* the method a precondition message tells the caller to use *)
NamedCall(msg) ==
    CASE msg = MsgNeedTrain -> "set_kernel_train"
      [] msg = MsgNeedTest -> "set_kernel_test"
      [] msg = MsgNeedFit -> "fit"
      [] msg = MsgNoTrainKernel -> "set_kernel_test"
      [] OTHER -> ""

(* the call needs the test kernel *)
UsesTestKernel ==
    \/ fc.name \in {"predict_proba", "predict"} /\ ~fc.args.train
    \/ fc.name = "score"

(* C23: in fit, set_kernel_test, predict_proba, predict and score a missing
   train kernel raises a precondition error whose message names
   set_kernel_train, also when more is missing; otherwise a missing test
   kernel raises one naming set_kernel_test; otherwise missing fit results
   raise one naming fit. *)
C23_MessagesNameRequiredCall ==
    /\ (/\ fc.name \in {"fit", "set_kernel_test", "predict_proba", "predict", "score"}
        /\ fc.pre.K = NoKernel) =>
          (fc.raised = "RuntimeError" /\ NamedCall(fc.msg) = "set_kernel_train")
    /\ (UsesTestKernel /\ fc.pre.K # NoKernel /\ fc.pre.K_test = NoKernel) =>
          (fc.raised = "RuntimeError" /\ NamedCall(fc.msg) = "set_kernel_test")
    /\ (/\ fc.name \in {"predict_proba", "predict", "score"}
        /\ fc.pre.K # NoKernel /\ (UsesTestKernel => fc.pre.K_test # NoKernel)
        /\ fc.args.calcs_ok /\ ~fc.pre.results.fitted) =>
          (fc.raised = "RuntimeError" /\ NamedCall(fc.msg) = "fit")

(* C23: what does hold: fit names set_kernel_train, a flat set_kernel_test
   names it too, and with a train kernel held a missing test kernel and
   missing fit results are named by their own calls *)
C23_HoldsWithTrainKernel ==
    /\ (fc.name = "fit" /\ fc.pre.K = NoKernel) =>
          (fc.raised = "RuntimeError" /\ NamedCall(fc.msg) = "set_kernel_train")
    /\ (fc.name = "set_kernel_test" /\ ~fc.pre.nested /\ fc.pre.K = NoKernel) =>
          (fc.raised = "RuntimeError" /\ NamedCall(fc.msg) = "set_kernel_train")
    /\ fc.pre.K # NoKernel =>
          /\ (UsesTestKernel /\ fc.pre.K_test = NoKernel) =>
                (fc.raised = "RuntimeError" /\ NamedCall(fc.msg) = "set_kernel_test")
          /\ (/\ fc.name \in {"predict_proba", "predict", "score"}
              /\ (UsesTestKernel => fc.pre.K_test # NoKernel)
              /\ fc.args.calcs_ok /\ ~fc.pre.results.fitted) =>
                (fc.raised = "RuntimeError" /\ NamedCall(fc.msg) = "fit")

(* C23: predict_proba and predict never answer a missing train kernel with
   a message that names set_kernel_test *)
C23_PredictNamesTrain ==
    ~(/\ fc.name \in {"predict_proba", "predict"} /\ fc.pre.K = NoKernel
      /\ fc.raised = "RuntimeError" /\ NamedCall(fc.msg) = "set_kernel_test")

(* C23: score never answers a missing train kernel with a message that
   names set_kernel_test *)
C23_ScoreNamesTrain ==
    ~(/\ fc.name = "score" /\ fc.pre.K = NoKernel
      /\ fc.raised = "RuntimeError" /\ NamedCall(fc.msg) = "set_kernel_test")

(* what the latest facade call did: the fields afterwards, the exception
   and what was returned *)
Observed == Outcome(km, fc.raised, fc.msg, fc.out)

(* C24: after a successful set_kernel_train, set_kernel_test with
   choice_column and attributes omitted does what the same call does with
   the stored choice column and attributes passed. *)
C24_OmittedColumnIsStoredColumn ==
    (fc.name = "set_kernel_test" /\ ~fc.args.column_given
     /\ fc.pre.choice_column # NoData) =>
        Observed = SetKernelTestOp(fc.pre, fc.args.Z, TRUE, fc.args.mode)

(* C24 for models without nests *)
C24_HoldsForFlat == ~fc.pre.nested => C24_OmittedColumnIsStoredColumn

(* C24: a nested model never fails on the unset default where the stored
   column would have built the test kernel *)
C24_NoKeyErrorOnDefault ==
    ~(/\ fc.name = "set_kernel_test" /\ ~fc.args.column_given
      /\ fc.pre.choice_column # NoData /\ fc.raised = "KeyError"
      /\ SetKernelTestOp(fc.pre, fc.args.Z, TRUE, fc.args.mode).raised = "")

(* predict_proba(train=True) on a model that holds a train kernel and the
   results of a fit that returned normally *)
PredictAfterFit ==
    /\ fc.name = "predict_proba" /\ fc.args.train
    /\ fc.pre.K # NoKernel /\ fc.pre.results.fitted

(* C25: after a fit that returned normally predict_proba(train=True) finds
   every result key it reads and computes the probabilities, for a nested
   model with a calculus engine that has the nests fit used. *)
C25_PredictReadsWhatFitWrote ==
    PredictAfterFit =>
        /\ fc.raised = "" /\ fc.out.computed
        /\ fc.pre.nested => fc.out.calcs.nests = fc.pre.nests

(* C25 for models without nests *)
C25_HoldsForFlat == ~fc.pre.nested => C25_PredictReadsWhatFitWrote

(* C25: the engine predict_proba builds for a nested model has the model's
   nests *)
C25_EngineHasFitNests ==
    (fc.name = "predict_proba" /\ fc.pre.nested /\ fc.out.calcs # NoEngine) =>
        fc.out.calcs.nests = fc.pre.nests

(* C25: predict_proba reads no key that the fit results lack *)
C25_NoMissingKey ==
    ~(PredictAfterFit /\ fc.raised = "KeyError" /\ fc.msg \notin fc.pre.results.keys)

(* a fit of a nested model that returned normally *)
NestedFitDone == fc.name = "fit" /\ fc.pre.nested /\ fc.raised = ""

(* C26: in a nested fit the log-likelihood at zero is evaluated at
   alpha = 0 with every nest scale 1, whether or not the caller gave
   lambd_params; the caller's values go to the initial log-likelihood and to
   the optimizer's start point. *)
C26_BaselineAtUnitScales ==
    NestedFitDone =>
        /\ fc.out.at_zero = [alpha |-> "zeros", lambd |-> "ones"]
        /\ fc.out.initial.lambd = (IF fc.args.lambd_given THEN "given" ELSE "ones")
        /\ fc.out.start.lambd = fc.out.initial.lambd

(* C26 when the caller gives no lambd_params *)
C26_HoldsWithDefaultLambd ==
    (NestedFitDone /\ ~fc.args.lambd_given) => C26_BaselineAtUnitScales

(* C26: the caller's lambd_params reach the initial log-likelihood and the
   start point and nothing else takes their place *)
C26_CallerValuesUsed ==
    (NestedFitDone /\ fc.args.lambd_given) =>
        (fc.out.initial.lambd = "given" /\ fc.out.start.lambd = "given")

(* the results held by m come from a fit on the train kernel k *)
FittedOn(m, k) == m.results.fitted /\ m.results.x = k.x /\ m.results.cfg = k.cfg

(* C27: whenever the model holds fit results and a train kernel, the
   results come from a fit on that train kernel; a call that replaces or
   clears the train kernel leaves no earlier results. *)
C27_ResultsNeverStale ==
    /\ (km.results.fitted /\ km.K # NoKernel) => FittedOn(km, km.K)
    /\ (fc.name \in {"set_kernel_train", "clear_kernel"} /\ km.K # fc.pre.K) =>
          ~km.results.fitted

(* C27: predict_proba computes only with coefficients fitted on the train
   kernel the model holds *)
C27_NoStalePrediction ==
    (fc.name \in {"predict_proba", "predict", "score"} /\ fc.out.computed) =>
        FittedOn(fc.pre, fc.pre.K)

(* C27: fit itself leaves results that belong to the held train kernel *)
C27_FreshAfterFit ==
    (fc.name = "fit" /\ fc.raised = "") => FittedOn(km, km.K)

(* C28: whenever a train kernel is held, alpha_shape is (num_cols,
   num_alternatives) of that kernel and n_parameters their product; a fit
   that returns started from a zero alpha of that shape, flattened to that
   many parameters. *)
C28_ShapeMatchesTrainKernel ==
    /\ km.K # NoKernel =>
          /\ km.alpha_shape = AlphaShape(km.K)
          /\ km.n_parameters = AlphaShape(km.K)[1] * AlphaShape(km.K)[2]
    /\ (fc.name = "fit" /\ fc.raised = "") =>
          /\ fc.out.start.shape = AlphaShape(fc.pre.K)
          /\ fc.out.start.size = AlphaShape(fc.pre.K)[1] * AlphaShape(fc.pre.K)[2]
          /\ fc.out.calcs.K = fc.pre.K

(* a fit on a train kernel that replaced the one of an earlier fit and has
   another shape *)
C28_Witness ==
    /\ fc.name = "fit" /\ fc.raised = ""
    /\ fc.pre.results.fitted /\ fc.pre.results.x # fc.pre.K.x
    /\ fc.out.start.shape = <<3, 2>>

(* the two outputs of the wrapped function at the arguments of the latest
   wrapper call: the one that call has to return *)
FreshOutput ==
    LET fg == WrappedFun(last.x, last.mb, inp.n_samples)
    IN IF last.kind = "value" THEN fg.value ELSE fg.jac

(* the mini-batch is None or holds at least one index and none twice *)
IsChunk(mb) ==
    mb.kind = "arr" =>
        /\ Len(mb.v) >= 1
        /\ \A j, k \in DOMAIN mb.v : j # k => mb.v[j] # mb.v[k]

(* C29: whatever calls were made before, a value call returns the value and
   a derivative call the gradient of the wrapped function at exactly the
   point and mini-batch of the call. *)
C29_CacheCoherent ==
    last.n > 0 => (last.raised = "" /\ last.returned = FreshOutput)

(* C29: a call that returns returns the outputs at its own arguments when
   its mini-batch and the cached one are None or chunks of a permutation *)
C29_CoherentOnChunks ==
    (last.n > 0 /\ last.raised = "" /\ IsChunk(last.mb) /\ IsChunk(last.cmb)) =>
        last.returned = FreshOutput

(* C29: no call returns without raising something other than the outputs at
   its own arguments *)
C29_NoStaleReturn ==
    ~(last.n > 0 /\ last.raised = "" /\ last.returned # FreshOutput)

====
